---- MODULE Spec2Model ----
(***************************************************************************)
(* The job-application CRUD API of the JINDER repository.  The repository  *)
(* holds several independent implementations of the same REST surface;     *)
(* each is modelled as one value of impl, fixed at start-up:                *)
(*   "mem"   the in-memory router       (src/unnamed/part_002)              *)
(*   "api"   the owner-scoped router    (src/backend/routes/jobs.js) on the *)
(*           Mongoose schema            (src/backend/models/Job.js 3-48)    *)
(*   "stub"  the placeholder router     (src/src/App.js 27-123)             *)
(*   "class" the Job model class        (src/backend/models/Job.js 64-483)  *)
(* Strings are tuples of one-character strings, so that trim and length    *)
(* are computed as JavaScript computes them.                               *)
(***************************************************************************)
EXTENDS Integers, Sequences, FiniteSets, TLC

VARIABLES
    impl,       \* which implementation is running
    jobs,       \* "mem": the jobs array
    nextId,     \* "mem": the id counter
    docs,       \* "api": the documents of the Job collection, in insertion order
    nextOid,    \* "api": the next ObjectId the driver generates
    strictQuery, \* "api": whether Mongoose removes from a filter the paths
                \* the schema does not declare (its default differs
                \* between the releases of Mongoose)
    owner,      \* "api": owner[oid] is the user whose request created the
                \* document with that ObjectId
    instance,   \* "class": the Job instance the caller holds, if any
    NODE_ENV,   \* process.env.NODE_ENV, read by the error middleware
    component,  \* the state of the JobList component: jobs, showForm and
                \* editingJob (a sequence of at most one job, empty for null)
    pressed,    \* the last thing the user did in the JobList component
    calls,      \* "api", requests in flight together: calls[p] is the
                \* request p, how far its handler has come, the document
                \* the handler holds and the response
    now,        \* the clock, as new Date() reads it
    req,        \* the request being answered
    res         \* the response to it

\* the variables the routers and the Job class leave alone
others == <<NODE_ENV, calls, component, pressed>>

vars == <<impl, jobs, nextId, docs, nextOid, strictQuery, owner, instance, now,
          req, res, others>>

---------------------------------------------------------------------------
(* Bounds of the model *)

\* the clock runs from Now0 to MaxTime
MaxTime == 3
\* the in-memory router creates ids up to MaxId
MaxId == 3
\* the Job collection gets ObjectIds up to MaxOid
MaxOid == 1

---------------------------------------------------------------------------
(* JavaScript values and strings *)

Undefined == [t |-> "undefined", s |-> <<>>, n |-> 0]
Null == [t |-> "null", s |-> <<>>, n |-> 0]
Str(s) == [t |-> "string", s |-> s, n |-> 0]
Num(n) == [t |-> "number", s |-> <<>>, n |-> n]
\* an ISO 8601 date string, or a Date, of the instant n
DateOf(n) == [t |-> "date", s |-> <<>>, n |-> n]

\* !v : undefined, null, "" and 0 are falsy
Falsy(v) ==
    \/ v.t \in {"undefined", "null"}
    \/ v.t = "string" /\ v.s = <<>>
    \/ v.t = "number" /\ v.n = 0

IsSpace(c) == c = " "

RECURSIVE TrimStart(_)
TrimStart(s) == IF s # <<>> /\ IsSpace(Head(s)) THEN TrimStart(Tail(s)) ELSE s

RECURSIVE TrimEnd(_)
TrimEnd(s) ==
    IF s # <<>> /\ IsSpace(s[Len(s)]) THEN TrimEnd(SubSeq(s, 1, Len(s) - 1)) ELSE s

\* String.prototype.trim
Trim(s) == TrimEnd(TrimStart(s))

\* String.prototype.toLowerCase
UpperCase ==
    <<"A","B","C","D","E","F","G","H","I","J","K","L","M",
      "N","O","P","Q","R","S","T","U","V","W","X","Y","Z">>
LowerCase ==
    <<"a","b","c","d","e","f","g","h","i","j","k","l","m",
      "n","o","p","q","r","s","t","u","v","w","x","y","z">>
toLowerChar(c) ==
    IF \E i \in 1..Len(UpperCase) : UpperCase[i] = c
      THEN LowerCase[CHOOSE i \in 1..Len(UpperCase) : UpperCase[i] = c]
      ELSE c
toLowerCase(s) == [i \in 1..Len(s) |-> toLowerChar(s[i])]

\* String.prototype.includes
includes(s, t) ==
    \E i \in 0..(Len(s) - Len(t)) : SubSeq(s, i + 1, i + Len(t)) = t

\* Array.prototype.slice(start, end): a negative index counts from the end
slice(a, start, end) ==
    LET from == IF start < 0 THEN (IF Len(a) + start < 0 THEN 0 ELSE Len(a) + start)
                ELSE (IF start > Len(a) THEN Len(a) ELSE start)
        to == IF end < 0 THEN (IF Len(a) + end < 0 THEN 0 ELSE Len(a) + end)
              ELSE (IF end > Len(a) THEN Len(a) ELSE end)
    IN  SubSeq(a, from + 1, to)

\* Math.ceil(n / d) for n >= 0 and d > 0
ceil(n, d) == (n + d - 1) \div d

\* the elements of a sequence
Range(q) == {q[i] : i \in 1..Len(q)}

---------------------------------------------------------------------------
(* String literals of the source and of the requests *)

FullStackDeveloper ==
    <<"F","u","l","l"," ","S","t","a","c","k"," ","D","e","v","e","l","o","p","e","r">>
TechCorp == <<"T","e","c","h","C","o","r","p">>
SanFranciscoCA == <<"S","a","n"," ","F","r","a","n","c","i","s","c","o",","," ","C","A">>
LookingFor ==
    <<"L","o","o","k","i","n","g"," ","f","o","r"," ","a","n"," ","e","x","p","e","r",
      "i","e","n","c","e","d"," ","f","u","l","l"," ","s","t","a","c","k"," ","d","e",
      "v","e","l","o","p","e","r",".",".",".">>
Salary120 == <<"$","1","2","0",",","0","0","0"," ","-"," ","$","1","5","0",",","0","0","0">>
FrontendDeveloper ==
    <<"F","r","o","n","t","e","n","d"," ","D","e","v","e","l","o","p","e","r">>
StartupXYZ == <<"S","t","a","r","t","u","p","X","Y","Z">>
Remote == <<"R","e","m","o","t","e">>
JoinOur ==
    <<"J","o","i","n"," ","o","u","r"," ","d","y","n","a","m","i","c"," ","t","e","a",
      "m"," ","a","s"," ","a"," ","f","r","o","n","t","e","n","d"," ","d","e","v","e",
      "l","o","p","e","r",".",".",".">>
Salary90 == <<"$","9","0",",","0","0","0"," ","-"," ","$","1","1","0",",","0","0","0">>
FullTime == <<"f","u","l","l","-","t","i","m","e">>

\* request strings: "Dev", "ab", "   ", "Acme", "a", "NYC", "We are looking for..."
Dev == <<"D","e","v">>
Ab == <<"a","b">>
Blank3 == <<" "," "," ">>
Acme == <<"A","c","m","e">>
OneA == <<"a">>
NYC == <<"N","Y","C">>
WeAreLookingFor ==
    <<"W","e"," ","a","r","e"," ","l","o","o","k","i","n","g"," ","f","o","r",".",".",".">>

---------------------------------------------------------------------------
(* Requests and responses *)

\* the request body: a JSON object; an absent key reads as undefined
Body(title, company, location, description, status, applicationDate) ==
    [title |-> title, company |-> company, location |-> location,
     description |-> description, salary |-> Undefined, status |-> status,
     applicationDate |-> applicationDate, userId |-> Undefined,
     id |-> Undefined, createdAt |-> Undefined]

NoBody == Body(Undefined, Undefined, Undefined, Undefined, Undefined, Undefined)

\* req.query of a list request: an absent parameter reads as undefined;
\* page and limit are strings of digits, held as the numbers they denote
Query(company, location, status, search, sortBy, sortOrder, page, limit) ==
    [company |-> company, location |-> location, status |-> status,
     search |-> search, type |-> Undefined, sortBy |-> sortBy,
     sortOrder |-> sortOrder, page |-> page, limit |-> limit]

NoQuery ==
    Query(Undefined, Undefined, Undefined, Undefined, Undefined, Undefined,
          Undefined, Undefined)

\* the pagination object of a list response
Pagination(currentPage, totalPages, totalItems, limit) ==
    [currentPage |-> currentPage, totalPages |-> totalPages,
     totalItems |-> totalItems, limit |-> limit]

NoPagination == Pagination(0, 0, 0, 0)

\* user is req.user.id as the auth middleware sets it (0: no authentication)
Request(method, user, id, body) ==
    [method |-> method, user |-> user, id |-> id, body |-> body,
     query |-> NoQuery]

\* GET of the collection
ListRequest(user, query) ==
    [Request("LIST", user, 0, NoBody) EXCEPT !.query = query]

\* res.status(status).json({...}): keys are the keys of the JSON object,
\* fields the field names the error payload gives, data the record returned
Response(status, keys, success, fields, data) ==
    [status |-> status, keys |-> keys, success |-> success,
     fields |-> fields, data |-> data, meta |-> NoPagination]

\* the response to a list request: data are the items of the page
ListResponse(keys, items, meta) ==
    [Response(200, keys, TRUE, <<>>, items) EXCEPT !.meta = meta]

NoRequest == Request("none", 0, 0, NoBody)
NoResponse == Response(0, {}, FALSE, <<>>, <<>>)

\* parseInt of a non-numeric id parameter
NaN == -1

---------------------------------------------------------------------------
(* The in-memory router: src/unnamed/part_002 *)

Seed1Date == 0
Seed2Date == 1
\* the clock when the server starts: later than the seed dates
Now0 == 2

SeedJobs ==
    << [id |-> 1, title |-> FullStackDeveloper, company |-> TechCorp,
        location |-> SanFranciscoCA, description |-> LookingFor,
        salary |-> Str(Salary120), type |-> FullTime,
        createdAt |-> Seed1Date, updatedAt |-> Seed1Date],
       [id |-> 2, title |-> FrontendDeveloper, company |-> StartupXYZ,
        location |-> Remote, description |-> JoinOur,
        salary |-> Str(Salary90), type |-> FullTime,
        createdAt |-> Seed2Date, updatedAt |-> Seed2Date] >>

requiredFields == <<"title", "company", "location", "description">>

IsStringBetween(v, lo, hi) == v.t = "string" /\ Len(v.s) >= lo /\ Len(v.s) <= hi

BadRequest(keys, fields) == Response(400, keys, FALSE, fields, <<>>)

\* validateJobData reporting only the first missing field
validateJobData_FirstMissingOnly(body) ==
    LET missingFields == SelectSeq(requiredFields, LAMBDA f : Falsy(body[f]))
        keys == {"success", "error", "message"}
    IN  IF missingFields # <<>>
          THEN BadRequest(keys \cup {"missingFields"}, <<Head(missingFields)>>)
        ELSE IF ~IsStringBetween(body.title, 3, 100)
          THEN BadRequest(keys, <<"title">>)
        ELSE IF ~IsStringBetween(body.company, 2, 50)
          THEN BadRequest(keys, <<"company">>)
        ELSE IF ~IsStringBetween(body.location, 3, 100)
          THEN BadRequest(keys, <<"location">>)
        ELSE IF ~IsStringBetween(body.description, 10, 1000)
          THEN BadRequest(keys, <<"description">>)
        ELSE NoResponse

\* the validation middleware: the rejecting response, or NoResponse for next()
validateJobData(body) ==
    LET missingFields == SelectSeq(requiredFields, LAMBDA f : Falsy(body[f]))
        keys == {"success", "error", "message"}
    IN  IF missingFields # <<>>
          THEN BadRequest(keys \cup {"missingFields"}, missingFields)
        ELSE IF ~IsStringBetween(body.title, 3, 100)
          THEN BadRequest(keys, <<"title">>)
        ELSE IF ~IsStringBetween(body.company, 2, 50)
          THEN BadRequest(keys, <<"company">>)
        ELSE IF ~IsStringBetween(body.location, 3, 100)
          THEN BadRequest(keys, <<"location">>)
        ELSE IF ~IsStringBetween(body.description, 10, 1000)
          THEN BadRequest(keys, <<"description">>)
        ELSE NoResponse

\* jobs.findIndex(job => job.id === jobId): 0 stands for -1
findIndex(js, jobId) ==
    IF \E i \in 1..Len(js) : js[i].id = jobId
      THEN CHOOSE i \in 1..Len(js) :
             js[i].id = jobId /\ \A k \in 1..(i - 1) : js[k].id # jobId
      ELSE 0

\* an object literal with the two readings of the clock exchanged
newJob_TimestampsSwapped(id, body, created, updated) ==
    [id |-> id, title |-> Trim(body.title.s), company |-> Trim(body.company.s),
     location |-> Trim(body.location.s), description |-> Trim(body.description.s),
     salary |-> IF Falsy(body.salary) THEN Null ELSE body.salary,
     type |-> FullTime, createdAt |-> updated, updatedAt |-> created]

\* an object literal that takes the id before the counter's value
newJob_PreviousId(id, body, created, updated) ==
    [id |-> id - 1, title |-> Trim(body.title.s), company |-> Trim(body.company.s),
     location |-> Trim(body.location.s), description |-> Trim(body.description.s),
     salary |-> IF Falsy(body.salary) THEN Null ELSE body.salary,
     type |-> FullTime, createdAt |-> created, updatedAt |-> updated]

\* the object literal of POST: createdAt and updatedAt are two readings of the clock
newJob(id, body, created, updated) ==
    [id |-> id, title |-> Trim(body.title.s), company |-> Trim(body.company.s),
     location |-> Trim(body.location.s), description |-> Trim(body.description.s),
     salary |-> IF Falsy(body.salary) THEN Null ELSE body.salary,
     type |-> FullTime, createdAt |-> created, updatedAt |-> updated]

\* a replacement that takes id and createdAt from the body when it has them
updatedJob_IdentityFromBody(old, body, updated) ==
    [id |-> IF body.id # Undefined THEN body.id.n ELSE old.id,
     title |-> Trim(body.title.s), company |-> Trim(body.company.s),
     location |-> Trim(body.location.s), description |-> Trim(body.description.s),
     salary |-> IF Falsy(body.salary) THEN Null ELSE body.salary,
     type |-> FullTime,
     createdAt |->
         IF body.createdAt # Undefined THEN body.createdAt.n ELSE old.createdAt,
     updatedAt |-> updated]

\* a replacement that keeps the old updatedAt
updatedJob_KeepsUpdatedAt(old, body, updated) ==
    [id |-> old.id, title |-> Trim(body.title.s), company |-> Trim(body.company.s),
     location |-> Trim(body.location.s), description |-> Trim(body.description.s),
     salary |-> IF Falsy(body.salary) THEN Null ELSE body.salary,
     type |-> FullTime, createdAt |-> old.createdAt, updatedAt |-> old.updatedAt]

\* the object literal of PUT: the whole record is replaced, id and createdAt kept
updatedJob(old, body, updated) ==
    [id |-> old.id, title |-> Trim(body.title.s), company |-> Trim(body.company.s),
     location |-> Trim(body.location.s), description |-> Trim(body.description.s),
     salary |-> IF Falsy(body.salary) THEN Null ELSE body.salary,
     type |-> FullTime, createdAt |-> old.createdAt, updatedAt |-> updated]

NotFound(keys) == Response(404, keys, FALSE, <<>>, <<>>)

MemKeys == {"success", "error", "message"}

MemBody(title, company) ==
    Body(title, company, Str(NYC), Str(WeAreLookingFor), Undefined, Undefined)
\* a body that also carries an id and a createdAt
WithIdentity(body, id, createdAt) ==
    [body EXCEPT !.id = Num(id), !.createdAt = DateOf(createdAt)]
\* a body that also carries a userId
WithOwner(body, userId) == [body EXCEPT !.userId = Num(userId)]
\* the bodies tried with PUT: valid and carrying an id and a createdAt,
\* whitespace-only title, title missing
MemPutBodies ==
    {WithIdentity(MemBody(Str(Dev), Str(Acme)), 2, MaxTime),
     MemBody(Str(Blank3), Str(Acme)), MemBody(Undefined, Str(Acme))}
\* the bodies tried with POST: valid, whitespace-only title, title missing,
\* title and company too short, company missing, both missing, one missing
\* and one too short
MemBodies ==
    {MemBody(Str(Dev), Str(Acme)), MemBody(Str(Blank3), Str(Acme)),
     MemBody(Undefined, Str(Acme)), MemBody(Str(Ab), Str(OneA)),
     MemBody(Str(Dev), Undefined), MemBody(Undefined, Undefined),
     MemBody(Str(Ab), Undefined)}
IdParams == (1..(MaxId + 1)) \cup {NaN}

\* no request is being handled
Idle == req = NoRequest

MemPost(body) ==
    /\ impl = "mem" /\ Idle
    /\ req' = Request("POST", 0, 0, body)
    /\ LET rejected == validateJobData(body) IN
       IF rejected # NoResponse
         THEN /\ res' = rejected
              /\ UNCHANGED <<jobs, nextId, now>>
         ELSE /\ nextId <= MaxId
              /\ \E d \in 0..1 :
                   /\ now + d <= MaxTime
                   /\ now' = now + d
                   /\ LET job == newJob(nextId, body, now, now + d) IN
                        /\ jobs' = Append(jobs, job)
                        /\ res' = Response(201, {"success", "data", "message"},
                                           TRUE, <<>>, <<job>>)
              /\ nextId' = nextId + 1
    /\ UNCHANGED <<impl, others, strictQuery, owner, instance, docs, nextOid>>

MemPut(id, body) ==
    /\ impl = "mem" /\ Idle
    /\ req' = Request("PUT", 0, id, body)
    /\ LET rejected == validateJobData(body)
           existingJobIndex == findIndex(jobs, id)
       IN  IF rejected # NoResponse
             THEN res' = rejected /\ UNCHANGED <<jobs, now>>
           ELSE IF id = NaN
             THEN res' = BadRequest(MemKeys, <<>>) /\ UNCHANGED <<jobs, now>>
           ELSE IF existingJobIndex = 0
             THEN res' = NotFound(MemKeys) /\ UNCHANGED <<jobs, now>>
           ELSE LET job == updatedJob(jobs[existingJobIndex], body, now) IN
                  /\ jobs' = [jobs EXCEPT ![existingJobIndex] = job]
                  /\ res' = Response(200, {"success", "data", "message"},
                                     TRUE, <<>>, <<job>>)
                  /\ UNCHANGED now
    /\ UNCHANGED <<impl, others, strictQuery, owner, instance, nextId, docs, nextOid>>

\* a splice that removes nothing
splice_RemovesNothing(js, i) == js

\* jobs.splice(jobIndex, 1)
splice(js, i) == SubSeq(js, 1, i - 1) \o SubSeq(js, i + 1, Len(js))

MemDelete(id) ==
    /\ impl = "mem" /\ Idle
    /\ req' = Request("DELETE", 0, id, NoBody)
    /\ LET jobIndex == findIndex(jobs, id) IN
         IF id = NaN
           THEN res' = BadRequest(MemKeys, <<>>) /\ UNCHANGED jobs
         ELSE IF jobIndex = 0
           THEN res' = NotFound(MemKeys) /\ UNCHANGED jobs
         ELSE /\ jobs' = splice(jobs, jobIndex)
              /\ res' = Response(200, {"success", "data", "message"}, TRUE, <<>>, <<>>)
    /\ UNCHANGED <<impl, others, strictQuery, owner, instance, nextId, docs, nextOid, now>>

MemGet(id) ==
    /\ impl = "mem" /\ Idle
    /\ req' = Request("GET", 0, id, NoBody)
    /\ LET jobIndex == findIndex(jobs, id) IN
         IF id = NaN
           THEN res' = BadRequest(MemKeys, <<>>)
         ELSE IF jobIndex = 0
           THEN res' = NotFound(MemKeys)
         ELSE res' = Response(200, {"success", "data", "message"}, TRUE, <<>>,
                              <<jobs[jobIndex]>>)
    /\ UNCHANGED <<impl, others, strictQuery, owner, instance, jobs, nextId, docs, nextOid, now>>

\* the page size and page number a list request has by default
DefaultLimit == 10
DefaultPage == 1
\* the largest limit the query rules of routes/jobs.js accept
MaxPageSize == 100

AcmeLower == <<"a","c","m","e">>
Dot == <<".">>
Zzz == <<"z","z","z">>

\* a query that only pages
Paging(page, limit) ==
    Query(Undefined, Undefined, Undefined, Undefined, Undefined, Undefined,
          page, limit)

\* the queries tried on the in-memory router: none; the second page of
\* size one; a limit above the maximum; a company in another case; a
\* search text no record contains
MemQueries ==
    {NoQuery, Paging(Num(2), Num(1)), Paging(Undefined, Num(MaxPageSize + 1)),
     Query(Str(AcmeLower), Undefined, Undefined, Undefined, Undefined, Undefined,
           Undefined, Undefined),
     Query(Undefined, Undefined, Undefined, Str(Zzz), Undefined, Undefined,
           Undefined, Undefined)}

\* filteredJobs after the company, location and type filters
filteredJobs(js, query) ==
    LET byCompany ==
            IF Falsy(query.company) THEN js
            ELSE SelectSeq(js, LAMBDA job :
                     includes(toLowerCase(job.company), toLowerCase(query.company.s)))
        byLocation ==
            IF Falsy(query.location) THEN byCompany
            ELSE SelectSeq(byCompany, LAMBDA job :
                     includes(toLowerCase(job.location), toLowerCase(query.location.s)))
    IN  IF Falsy(query.type) THEN byLocation
        ELSE SelectSeq(byLocation, LAMBDA job : job.type = query.type.s)

MemList(query) ==
    /\ impl = "mem" /\ Idle
    /\ req' = ListRequest(0, query)
    /\ LET page == IF query.page = Undefined THEN DefaultPage ELSE query.page.n
           limit == IF query.limit = Undefined THEN DefaultLimit ELSE query.limit.n
           filtered == filteredJobs(jobs, query)
           startIndex == (page - 1) * limit
           endIndex == startIndex + limit
           paginatedJobs == slice(filtered, startIndex, endIndex)
       IN  res' = ListResponse({"success", "data", "meta", "message"}, paginatedJobs,
                               Pagination(page, ceil(Len(filtered), limit),
                                          Len(filtered), limit))
    /\ UNCHANGED <<impl, others, strictQuery, owner, instance, jobs, nextId, docs, nextOid, now>>

\* time passes between two requests
Tick ==
    /\ Idle
    /\ now < MaxTime
    /\ now' = now + 1
    /\ UNCHANGED <<impl, others, strictQuery, owner, instance, jobs, nextId, docs, nextOid, req, res>>

---------------------------------------------------------------------------
(* The owner-scoped router, src/backend/routes/jobs.js, on the Mongoose    *)
(* model of src/backend/models/Job.js (lines 3-48).  The router gives      *)
(* userId to the model and filters on it, but the schema declares no such  *)
(* path: Mongoose, strict by default, leaves the key out of the document   *)
(* it stores.                                                              *)

Applied == <<"a","p","p","l","i","e","d">>
Interview == <<"i","n","t","e","r","v","i","e","w">>
Interviewing == <<"i","n","t","e","r","v","i","e","w","i","n","g">>
Offer == <<"o","f","f","e","r">>
Rejected == <<"r","e","j","e","c","t","e","d">>
Withdrawn == <<"w","i","t","h","d","r","a","w","n">>
Accepted == <<"a","c","c","e","p","t","e","d">>
Bogus == <<"b","o","g","u","s">>

\* isIn([...]) of the request validators
ValidatorStatuses == {Applied, Interview, Offer, Rejected, Withdrawn}
\* enum: [...] of the schema
SchemaStatuses == {Applied, Interviewing, Offer, Rejected, Withdrawn}

\* express-validator reads every value as a string: undefined and null as ''
toString(v) == IF v.t = "string" THEN v.s ELSE <<>>
\* .optional(): the chain is skipped for an undefined value
Given(v) == v.t # "undefined"
notEmpty(v) == toString(v) # <<>>
isLength(v, min, max) == Len(toString(v)) >= min /\ Len(toString(v)) <= max
isIn(v, values) == toString(v) \in values
isISO8601(v) == v.t = "date"
isNumeric(v) == v.t = "number"
\* param('id').isMongoId(): NaN stands for an id that is no ObjectId
isMongoId(id) == id # NaN

Failed(cond, path) == IF cond THEN <<path>> ELSE <<>>

\* the paths of the errors the create rules collect, one per failed validator
jobValidationRules(body) ==
    Failed(~notEmpty(body.title), "title")
    \o Failed(~isLength(body.title, 2, 200), "title")
    \o Failed(~notEmpty(body.company), "company")
    \o Failed(~isLength(body.company, 2, 100), "company")
    \o Failed(Given(body.location) /\ ~isLength(body.location, 0, 100), "location")
    \o Failed(Given(body.salary) /\ ~isNumeric(body.salary), "salary")
    \o Failed(Given(body.description) /\ ~isLength(body.description, 0, 2000),
              "description")
    \o Failed(Given(body.status) /\ ~isIn(body.status, ValidatorStatuses), "status")
    \o Failed(Given(body.applicationDate) /\ ~isISO8601(body.applicationDate),
              "applicationDate")

\* update rules without the rule for status
updateJobValidationRules_NoStatusRule(body) ==
    Failed(Given(body.title) /\ ~isLength(body.title, 2, 200), "title")
    \o Failed(Given(body.company) /\ ~isLength(body.company, 2, 100), "company")
    \o Failed(Given(body.location) /\ ~isLength(body.location, 0, 100), "location")
    \o Failed(Given(body.salary) /\ ~isNumeric(body.salary), "salary")
    \o Failed(Given(body.description) /\ ~isLength(body.description, 0, 2000),
              "description")
    \o Failed(Given(body.applicationDate) /\ ~isISO8601(body.applicationDate),
              "applicationDate")

\* the update rules: every field optional
updateJobValidationRules(body) ==
    Failed(Given(body.title) /\ ~isLength(body.title, 2, 200), "title")
    \o Failed(Given(body.company) /\ ~isLength(body.company, 2, 100), "company")
    \o Failed(Given(body.location) /\ ~isLength(body.location, 0, 100), "location")
    \o Failed(Given(body.salary) /\ ~isNumeric(body.salary), "salary")
    \o Failed(Given(body.description) /\ ~isLength(body.description, 0, 2000),
              "description")
    \o Failed(Given(body.status) /\ ~isIn(body.status, ValidatorStatuses), "status")
    \o Failed(Given(body.applicationDate) /\ ~isISO8601(body.applicationDate),
              "applicationDate")

idValidationRules(id) == Failed(~isMongoId(id), "id")

\* the rejecting response, or NoResponse for next()
handleValidationErrors(errors) ==
    IF errors # <<>>
      THEN BadRequest({"success", "message", "errors"}, errors)
      ELSE NoResponse

\* the schema's setter for a String path with trim: true
SetString(v) == IF v.t = "string" THEN Str(Trim(v.s)) ELSE v

\* job[key] = req.body[key] for every key of the body that is not undefined.
\* Three keys have no effect on a stored document: createdAt, which the
\* timestamps option declares immutable, id, a virtual without setter, and
\* userId, which is not a path of the schema.
Assign(doc, body) ==
    [doc EXCEPT
       !.title = IF Given(body.title) THEN SetString(body.title) ELSE @,
       !.company = IF Given(body.company) THEN SetString(body.company) ELSE @,
       !.location = IF Given(body.location) THEN SetString(body.location) ELSE @,
       !.description =
           IF Given(body.description) THEN SetString(body.description) ELSE @,
       !.salary = IF Given(body.salary) THEN body.salary ELSE @,
       !.status = IF Given(body.status) THEN body.status ELSE @,
       !.applicationDate =
           IF Given(body.applicationDate) THEN body.applicationDate.n ELSE @]

\* a document whose status is the default whatever the body gives
NewDocument_AlwaysApplied(user, body, oid, date) ==
    [_id |-> oid,
     title |-> SetString(body.title), company |-> SetString(body.company),
     location |-> SetString(body.location),
     description |-> SetString(body.description), salary |-> body.salary,
     status |-> Str(Applied),
     applicationDate |->
         IF Falsy(body.applicationDate) THEN date ELSE body.applicationDate.n,
     createdAt |-> date, updatedAt |-> date]

\* new Job(jobData) of POST: the route's defaults for applicationDate and
\* status, then the schema's setters; the userId of jobData is not a path
\* of the schema and is left out
NewDocument(user, body, oid, date) ==
    [_id |-> oid,
     title |-> SetString(body.title), company |-> SetString(body.company),
     location |-> SetString(body.location),
     description |-> SetString(body.description), salary |-> body.salary,
     status |-> IF Falsy(body.status) THEN Str(Applied) ELSE body.status,
     applicationDate |->
         IF Falsy(body.applicationDate) THEN date ELSE body.applicationDate.n,
     createdAt |-> date, updatedAt |-> date]

Required(v) == v.t = "string" /\ v.s # <<>>

\* the paths the schema's validators reject when the document is saved
schemaValidate(doc) ==
    Failed(~Required(doc.title), "title")
    \o Failed(~Required(doc.company), "company")
    \o Failed(~Required(doc.location), "location")
    \o Failed(toString(doc.status) \notin SchemaStatuses, "status")

\* job.save() of a new document: validated, then inserted; a document the
\* schema rejects is not written (save throws)
insert(ds, doc) == IF schemaValidate(doc) # <<>> THEN ds ELSE Append(ds, doc)

\* a save that writes before it validates
save_WriteFirst(ds, i, doc) == [ds EXCEPT ![i] = doc]

\* job.save() of the document at index i: validated, then written
save(ds, i, doc) == IF schemaValidate(doc) # <<>> THEN ds ELSE [ds EXCEPT ![i] = doc]

\* the condition {userId: user} of a filter, on a stored document.  No
\* document holds a userId; a strict query has the condition removed from
\* its filter, any other query compares the value with a path that is not
\* there.
matchesUserId(d, user) == strictQuery

\* Job.findOne({_id, userId}): the index of the document, 0 for null
findOne(ds, id, user) ==
    IF \E i \in 1..Len(ds) : ds[i]._id = id /\ matchesUserId(ds[i], user)
      THEN CHOOSE i \in 1..Len(ds) : ds[i]._id = id /\ matchesUserId(ds[i], user)
      ELSE 0

\* Job.findByIdAndDelete(id)
findByIdAndDelete(ds, id) == SelectSeq(ds, LAMBDA d : d._id # id)

ApiKeys == {"success", "message"}
ServerError(keys) == Response(500, keys, FALSE, <<>>, <<>>)

Users == {1, 2}
\* an application date later than every reading of the clock
Future == MaxTime + 1

ApiBody(title, company, location, status, applicationDate) ==
    Body(title, company, location, Undefined, status, applicationDate)

\* the bodies tried with POST: a valid one; title or company missing; a
\* whitespace-only title; a status of both lists, of the validator's list
\* only and of neither list; a future date; title missing and a status of
\* neither list; location missing
ApiPostBodies ==
    {ApiBody(Str(Dev), Str(Acme), Str(NYC), Undefined, Undefined),
     ApiBody(Undefined, Str(Acme), Str(NYC), Undefined, Undefined),
     ApiBody(Str(Dev), Undefined, Str(NYC), Undefined, Undefined),
     ApiBody(Str(Blank3), Str(Acme), Str(NYC), Undefined, Undefined),
     ApiBody(Str(Dev), Str(Acme), Str(NYC), Str(Offer), Undefined),
     ApiBody(Str(Dev), Str(Acme), Str(NYC), Str(Interview), Undefined),
     ApiBody(Str(Dev), Str(Acme), Str(NYC), Str(Bogus), Undefined),
     ApiBody(Str(Dev), Str(Acme), Str(NYC), Undefined, DateOf(Future)),
     ApiBody(Undefined, Str(Acme), Str(NYC), Str(Bogus), Undefined),
     ApiBody(Str(Dev), Str(Acme), Undefined, Undefined, Undefined)}
\* the bodies tried with PUT, each with one field: a status of both lists
\* together with an id, a createdAt and the userId of the second user, a
\* status of the validator's list only, a status of neither list, a
\* whitespace-only title
ApiPutBodies ==
    {WithOwner(
         WithIdentity(ApiBody(Undefined, Undefined, Undefined, Str(Offer), Undefined),
                      2, Seed1Date), 2),
     ApiBody(Undefined, Undefined, Undefined, Str(Interview), Undefined),
     ApiBody(Undefined, Undefined, Undefined, Str(Bogus), Undefined),
     ApiBody(Str(Blank3), Undefined, Undefined, Undefined, Undefined)}

ApiIdParams == (1..(MaxOid + 1)) \cup {NaN}

ApiPost(user, body) ==
    /\ impl = "api" /\ Idle
    /\ req' = Request("POST", user, 0, body)
    /\ LET rejected == handleValidationErrors(jobValidationRules(body))
           job == NewDocument(user, body, nextOid, now)
       IN  IF rejected # NoResponse
             THEN res' = rejected /\ UNCHANGED <<docs, nextOid, owner>>
           ELSE /\ docs' = insert(docs, job)
                /\ IF schemaValidate(job) # <<>>
                     THEN /\ res' = ServerError(ApiKeys)
                          /\ UNCHANGED <<nextOid, owner>>
                     ELSE /\ nextOid <= MaxOid
                          /\ res' = Response(201, {"success", "message", "data"},
                                             TRUE, <<>>, <<job>>)
                          /\ nextOid' = nextOid + 1
                          /\ owner' = Append(owner, user)
    /\ UNCHANGED <<impl, others, strictQuery, instance, jobs, nextId, now>>

ApiPut(user, id, body) ==
    /\ impl = "api" /\ Idle
    /\ req' = Request("PUT", user, id, body)
    /\ LET rejected == handleValidationErrors(
                           idValidationRules(id) \o updateJobValidationRules(body))
           i == findOne(docs, id, user)
           job == [Assign(docs[i], body) EXCEPT !.updatedAt = now]
       IN  IF rejected # NoResponse
             THEN res' = rejected /\ UNCHANGED docs
           ELSE IF i = 0
             THEN res' = NotFound(ApiKeys) /\ UNCHANGED docs
           ELSE /\ docs' = save(docs, i, job)
                /\ res' = IF schemaValidate(job) # <<>>
                            THEN ServerError(ApiKeys)
                            ELSE Response(200, {"success", "message", "data"},
                                          TRUE, <<>>, <<job>>)
    /\ UNCHANGED <<impl, others, strictQuery, owner, instance, jobs, nextId, nextOid, now>>

ApiDelete(user, id) ==
    /\ impl = "api" /\ Idle
    /\ req' = Request("DELETE", user, id, NoBody)
    /\ LET rejected == handleValidationErrors(idValidationRules(id)) IN
         IF rejected # NoResponse
           THEN res' = rejected /\ UNCHANGED docs
         ELSE IF findOne(docs, id, user) = 0
           THEN res' = NotFound(ApiKeys) /\ UNCHANGED docs
         ELSE /\ docs' = findByIdAndDelete(docs, id)
              /\ res' = Response(200, ApiKeys, TRUE, <<>>, <<>>)
    /\ UNCHANGED <<impl, others, strictQuery, owner, instance, jobs, nextId, nextOid, now>>

ApiGet(user, id) ==
    /\ impl = "api" /\ Idle
    /\ req' = Request("GET", user, id, NoBody)
    /\ LET rejected == handleValidationErrors(idValidationRules(id))
           i == findOne(docs, id, user)
       IN  IF rejected # NoResponse
             THEN res' = rejected
           ELSE IF i = 0
             THEN res' = NotFound(ApiKeys)
           ELSE res' = Response(200, {"success", "data"}, TRUE, <<>>, <<docs[i]>>)
    /\ UNCHANGED <<impl, others, strictQuery, owner, instance, jobs, nextId, docs, nextOid, now>>

\* the names a list request sorts by, and the two directions
CreatedAtName == <<"c","r","e","a","t","e","d","A","t">>
UpdatedAtName == <<"u","p","d","a","t","e","d","A","t">>
ApplicationDateName ==
    <<"a","p","p","l","i","c","a","t","i","o","n","D","a","t","e">>
TitleName == <<"t","i","t","l","e">>
CompanyName == <<"c","o","m","p","a","n","y">>
SalaryName == <<"s","a","l","a","r","y">>
Asc == <<"a","s","c">>
Desc == <<"d","e","s","c">>

\* isIn([...]) of the sortBy rule
SortFields == {CreatedAtName, ApplicationDateName, TitleName, CompanyName, SalaryName}

\* .isInt({min, max})
isInt(v, min, max) == v.t = "number" /\ v.n >= min /\ v.n <= max

\* the paths of the errors the query rules collect
queryValidationRules(query) ==
    Failed(Given(query.page) /\ ~(query.page.t = "number" /\ query.page.n >= 1),
           "page")
    \o Failed(Given(query.limit) /\ ~isInt(query.limit, 1, MaxPageSize), "limit")
    \o Failed(Given(query.status) /\ ~isIn(query.status, ValidatorStatuses), "status")
    \o Failed(Given(query.company) /\ ~isLength(query.company, 1, 100), "company")
    \o Failed(Given(query.location) /\ ~isLength(query.location, 1, 100), "location")
    \o Failed(Given(query.sortBy) /\ ~isIn(query.sortBy, SortFields), "sortBy")
    \o Failed(Given(query.sortOrder) /\ ~isIn(query.sortOrder, {Asc, Desc}),
              "sortOrder")

\* {$regex: pattern, $options: 'i'} on a string: the pattern occurs in the
\* text, letters matching in either case and '.' matching any character
\* (the other metacharacters of a regular expression are not interpreted)
regexTest(pattern, text) ==
    \E i \in 0..(Len(text) - Len(pattern)) :
        \A k \in 1..Len(pattern) :
            \/ pattern[k] = "."
            \/ toLowerChar(pattern[k]) = toLowerChar(text[i + k])

\* a field of a document matches the pattern: only a string can
regexMatches(v, pattern) == v.t = "string" /\ regexTest(pattern, v.s)

\* Job.find(filter): the documents the filter of the list route selects
find(ds, user, query) ==
    SelectSeq(ds, LAMBDA d :
        /\ matchesUserId(d, user)
        /\ Falsy(query.status) \/ d.status = query.status
        /\ Falsy(query.company) \/ regexMatches(d.company, query.company.s)
        /\ Falsy(query.location) \/ regexMatches(d.location, query.location.s)
        /\ Falsy(query.search)
             \/ regexMatches(d.title, query.search.s)
             \/ regexMatches(d.company, query.search.s)
             \/ regexMatches(d.description, query.search.s))

\* the order of the characters by code: blank, capitals, small letters
CharCode(c) ==
    LET alphabet == <<" ">> \o UpperCase \o LowerCase IN
      IF \E i \in 1..Len(alphabet) : alphabet[i] = c
        THEN CHOOSE i \in 1..Len(alphabet) : alphabet[i] = c
        ELSE 0

\* binary comparison of two strings
RECURSIVE StringLess(_, _)
StringLess(s, t) ==
    IF t = <<>> THEN FALSE
    ELSE IF s = <<>> THEN TRUE
    ELSE IF CharCode(Head(s)) # CharCode(Head(t))
      THEN CharCode(Head(s)) < CharCode(Head(t))
    ELSE StringLess(Tail(s), Tail(t))

\* the order MongoDB sorts values in: a missing value or null first, then
\* numbers, then strings
ValueLess(a, b) ==
    LET rank(v) == IF v.t \in {"undefined", "null"} THEN 0
                   ELSE IF v.t = "number" THEN 1 ELSE 2
    IN  IF rank(a) # rank(b) THEN rank(a) < rank(b)
        ELSE IF a.t = "number" THEN a.n < b.n
        ELSE IF a.t = "string" THEN StringLess(a.s, b.s)
        ELSE FALSE

\* document a comes strictly before document b under sort[sortBy] = 1
KeyLess(a, b, sortBy) ==
    IF sortBy = CreatedAtName THEN a.createdAt < b.createdAt
    ELSE IF sortBy = ApplicationDateName THEN a.applicationDate < b.applicationDate
    ELSE IF sortBy = TitleName THEN ValueLess(a.title, b.title)
    ELSE IF sortBy = CompanyName THEN ValueLess(a.company, b.company)
    ELSE ValueLess(a.salary, b.salary)

\* .sort(sort): the orders the database may return the documents in;
\* documents with equal keys come in any order
sorted(found, sortBy, sortOrder) ==
    LET n == Len(found)
        before(a, b) == IF sortOrder = Desc THEN KeyLess(b, a, sortBy)
                        ELSE KeyLess(a, b, sortBy)
    IN  {[i \in 1..n |-> found[f[i]]] :
           f \in {g \in Permutations(1..n) :
                    \A i \in 1..(n - 1) : ~before(found[g[i + 1]], found[g[i]])}}

\* a query that sorts and pages
Sorting(sortBy, sortOrder, page, limit) ==
    Query(Undefined, Undefined, Undefined, Undefined, sortBy, sortOrder, page, limit)

\* the queries tried on the owner-scoped router: none; the two pages of size
\* one sorted by company; a limit above the maximum; a sort field outside
\* the list; a status filter; a company filter that is a regular expression
ApiQueries ==
    {NoQuery,
     Sorting(Str(CompanyName), Str(Asc), Num(1), Num(1)),
     Sorting(Str(CompanyName), Str(Asc), Num(2), Num(1)),
     Paging(Undefined, Num(MaxPageSize + 1)),
     Sorting(Str(UpdatedAtName), Undefined, Undefined, Undefined),
     Query(Undefined, Undefined, Str(Offer), Undefined, Undefined, Undefined,
           Undefined, Undefined),
     Query(Str(Dot), Undefined, Undefined, Undefined, Undefined, Undefined,
           Undefined, Undefined)}

\* the responses the list route can give: the rejection of the query, or
\* one page for each order the database may return the documents in
listJobs(ds, user, query) ==
    LET rejected == handleValidationErrors(queryValidationRules(query))
        sortBy == IF Given(query.sortBy) THEN query.sortBy.s ELSE CreatedAtName
        sortOrder == IF Given(query.sortOrder) THEN query.sortOrder.s ELSE Desc
        pageNumber == IF Given(query.page) THEN query.page.n ELSE DefaultPage
        limitNumber == IF Given(query.limit) THEN query.limit.n ELSE DefaultLimit
        skip == (pageNumber - 1) * limitNumber
        found == find(ds, user, query)
        totalJobs == Len(found)
    IN  IF rejected # NoResponse
          THEN {rejected}
        ELSE {ListResponse({"success", "data"},
                           slice(order, skip, skip + limitNumber),
                           Pagination(pageNumber, ceil(totalJobs, limitNumber),
                                      totalJobs, limitNumber)) :
                order \in sorted(found, sortBy, sortOrder)}

ApiList(user, query) ==
    /\ impl = "api" /\ Idle
    /\ req' = ListRequest(user, query)
    /\ res' \in listJobs(docs, user, query)
    /\ UNCHANGED <<impl, others, strictQuery, owner, instance, jobs, nextId, docs, nextOid, now>>

---------------------------------------------------------------------------
(* The placeholder router: src/src/App.js *)

\* every handler answers without reading or writing a store (TODO in the source)
StubPost(body) ==
    /\ impl = "stub" /\ Idle
    /\ req' = Request("POST", 0, 0, body)
    /\ res' = Response(201, {"message", "job"}, FALSE, <<>>, <<body>>)
    /\ UNCHANGED <<impl, others, strictQuery, owner, instance, jobs, nextId, docs, nextOid, now>>

StubPut(id, body) ==
    /\ impl = "stub" /\ Idle
    /\ req' = Request("PUT", 0, id, body)
    /\ res' = Response(200, {"message", "job"}, FALSE, <<>>, <<body>>)
    /\ UNCHANGED <<impl, others, strictQuery, owner, instance, jobs, nextId, docs, nextOid, now>>

StubDelete(id) ==
    /\ impl = "stub" /\ Idle
    /\ req' = Request("DELETE", 0, id, NoBody)
    /\ res' = Response(200, {"message"}, FALSE, <<>>, <<>>)
    /\ UNCHANGED <<impl, others, strictQuery, owner, instance, jobs, nextId, docs, nextOid, now>>

\* GET /: the placeholder answers an empty list
StubList(query) ==
    /\ impl = "stub" /\ Idle
    /\ req' = ListRequest(0, query)
    /\ res' = ListResponse({"message", "jobs", "total"}, <<>>, NoPagination)
    /\ UNCHANGED <<impl, others, strictQuery, owner, instance, jobs, nextId, docs, nextOid, now>>

StubGet(id) ==
    /\ impl = "stub" /\ Idle
    /\ req' = Request("GET", 0, id, NoBody)
    /\ res' = Response(200, {"message", "job"}, FALSE, <<>>, <<>>)
    /\ UNCHANGED <<impl, others, strictQuery, owner, instance, jobs, nextId, docs, nextOid, now>>

---------------------------------------------------------------------------
(* The Job model class: src/backend/models/Job.js, lines 64-483.  Its     *)
(* database is simulated: a save stores nothing and a find returns null.   *)

\* the statuses validate() accepts
validStatuses == {Applied, Interview, Rejected, Offer, Accepted}

JobData(title, company, status, userId) ==
    [Body(title, company, Undefined, Undefined, status, Undefined)
       EXCEPT !.userId = userId]

\* new Job(jobData): createdAt and updatedAt are two readings of the clock
JobConstructor(jobData, id, created, updated) ==
    [id |-> id, title |-> jobData.title, company |-> jobData.company,
     status |-> IF Given(jobData.status) THEN jobData.status ELSE Str(Applied),
     userId |-> jobData.userId, dateApplied |-> created,
     description |->
         IF Given(jobData.description) THEN jobData.description ELSE Str(<<>>),
     salary |-> IF Given(jobData.salary) THEN jobData.salary ELSE Null,
     location |-> IF Given(jobData.location) THEN jobData.location ELSE Str(<<>>),
     createdAt |-> created, updatedAt |-> updated]

\* job.validate(): the fields of the errors it collects
validate(j) ==
    Failed(Falsy(j.title) \/ Len(Trim(j.title.s)) = 0, "title")
    \o Failed(Falsy(j.company) \/ Len(Trim(j.company.s)) = 0, "company")
    \o Failed(Falsy(j.userId), "userId")
    \o Failed(toString(j.status) \notin validStatuses, "status")
    \o Failed(j.salary # Null /\ (j.salary.t # "number" \/ j.salary.n < 0), "salary")

allowedUpdates == {"title", "company", "status", "description", "salary", "location"}

\* job.update(updates): the allowed fields the updates hold, then the timestamp
update(j, updates, date) ==
    [j EXCEPT
       !.title = IF Given(updates.title) THEN updates.title ELSE @,
       !.company = IF Given(updates.company) THEN updates.company ELSE @,
       !.status = IF Given(updates.status) THEN updates.status ELSE @,
       !.description = IF Given(updates.description) THEN updates.description ELSE @,
       !.salary = IF Given(updates.salary) THEN updates.salary ELSE @,
       !.location = IF Given(updates.location) THEN updates.location ELSE @,
       !.updatedAt = date]

\* 'job_' + Date.now() + '_' + Math.random()...: the time followed by a
\* random part (one digit here), read as a number
generateId(date, random) == date * 10 + random

\* a call that returns: data is what it returns
Returned(data) == Response(0, {"return"}, TRUE, <<>>, data)
\* a call that throws: fields are the fields the error message names
Thrown(fields) == Response(0, {"throw"}, FALSE, fields, <<>>)

\* static simulateDatabaseFind(jobId): resolve(null)
simulateDatabaseFind(jobId) == <<>>

JobDatas ==
    {JobData(Str(Dev), Str(Acme), Undefined, Num(1)),
     JobData(Undefined, Str(Acme), Undefined, Num(1)),
     JobData(Str(Dev), Undefined, Undefined, Num(1)),
     JobData(Str(Blank3), Str(Acme), Undefined, Num(1)),
     JobData(Str(Dev), Str(Acme), Str(Offer), Num(1)),
     JobData(Str(Dev), Str(Acme), Str(Bogus), Num(1)),
     JobData(Undefined, Str(Acme), Str(Bogus), Num(1)),
     JobData(Str(Dev), Str(Acme), Undefined, Undefined)}

JobUpdates ==
    {JobData(Undefined, Undefined, Str(Offer), Undefined),
     WithIdentity(JobData(Undefined, Undefined, Str(Rejected), Undefined),
                  2, Seed1Date),
     JobData(Undefined, Undefined, Str(Bogus), Undefined),
     JobData(Str(Blank3), Undefined, Undefined, Undefined)}

Randoms == 0..1

\* Job.create(jobData)
JobCreate(jobData) ==
    /\ impl = "class" /\ Idle
    /\ req' = Request("create", 0, 0, jobData)
    /\ \E d \in 0..1, random \in Randoms :
         /\ now + d <= MaxTime
         /\ now' = now + d
         /\ LET new == JobConstructor(jobData, <<>>, now, now + d)
                errors == validate(new)
                created == [new EXCEPT !.id = generateId(now + d, random)]
            IN  IF errors # <<>>
                  THEN res' = Thrown(errors) /\ UNCHANGED instance
                  ELSE res' = Returned(<<created>>) /\ instance' = <<created>>
    /\ UNCHANGED <<impl, others, strictQuery, owner, jobs, nextId, docs, nextOid>>

\* job.update(updates) on the instance held
JobUpdate(updates) ==
    /\ impl = "class" /\ Idle
    /\ instance # <<>>
    /\ req' = Request("update", 0, 0, updates)
    /\ instance' = <<update(instance[1], updates, now)>>
    /\ res' = Returned(instance')
    /\ UNCHANGED <<impl, others, strictQuery, owner, jobs, nextId, docs, nextOid, now>>

\* Job.updateById(jobId, updates)
JobUpdateById(jobId, updates) ==
    /\ impl = "class" /\ Idle
    /\ req' = Request("updateById", 0, jobId, updates)
    /\ LET existingJob == simulateDatabaseFind(jobId) IN
         IF existingJob = <<>>
           THEN res' = Thrown(<<>>) /\ UNCHANGED instance
           ELSE LET updated == update(existingJob[1], updates, now) IN
                  IF validate(updated) # <<>>
                    THEN res' = Thrown(validate(updated)) /\ UNCHANGED instance
                    ELSE res' = Returned(<<updated>>) /\ UNCHANGED instance
    /\ UNCHANGED <<impl, others, strictQuery, owner, jobs, nextId, docs, nextOid, now>>

\* Job.findById(jobId): null when the database has no data for the id
JobFindById(jobId) ==
    /\ impl = "class" /\ Idle
    /\ req' = Request("findById", 0, jobId, NoBody)
    /\ LET jobData == simulateDatabaseFind(jobId) IN
         IF jobData = <<>>
           THEN res' = Returned(<<>>)
           ELSE res' = Returned(<<JobConstructor(jobData[1], jobData[1].id, now, now)>>)
    /\ UNCHANGED <<impl, others, strictQuery, owner, instance, jobs, nextId, docs, nextOid, now>>

\* the ids Job.findById is called with: the instance's id and an unknown one
JobIds == {instance[i].id : i \in 1..Len(instance)} \cup {0}

---------------------------------------------------------------------------

\* the response has been sent: the request-response cycle is over
ResponseSent ==
    /\ ~Idle
    /\ req' = NoRequest
    /\ res' = NoResponse
    /\ UNCHANGED <<impl, others, strictQuery, owner, instance, jobs, nextId, docs, nextOid, now>>

---------------------------------------------------------------------------
(* Unexpected failures: the error middleware of src/backend/server.js and  *)
(* of src/unnamed/part_007, and the catch blocks of src/src/App.js.        *)

\* the messages of the internal errors tried; the last one is empty
InternalMessages ==
    {"connect ECONNREFUSED 10.0.0.5:27017",
     "Cannot read properties of undefined (reading 'id')", ""}

Environments == {"production", "development"}

\* a 500 response whose JSON body holds the given texts
ErrorResponse(keys, body) == Response(500, keys, FALSE, <<>>, <<body>>)

\* server.js: app.use((err, req, res, next) => ...)
ServerErrorMiddleware(message) ==
    /\ impl = "server" /\ Idle
    /\ req' = Request("GET", 0, 0, NoBody)
    /\ res' = ErrorResponse({"error", "message"},
                   [error |-> "Something went wrong!",
                    message |-> IF NODE_ENV = "production"
                                  THEN "Internal server error" ELSE message])
    /\ UNCHANGED <<impl, others, strictQuery, owner, instance, jobs, nextId, docs,
                   nextOid, now>>

\* part_007: the global error handling middleware, for an error without a
\* statusCode
GlobalErrorMiddleware(message) ==
    /\ impl = "part_007" /\ Idle
    /\ req' = Request("GET", 0, 0, NoBody)
    /\ res' = ErrorResponse({"error"},
                   [message |-> IF message = "" THEN "Internal Server Error"
                                ELSE message,
                    status |-> 500, timestamp |-> now])
    /\ UNCHANGED <<impl, others, strictQuery, owner, instance, jobs, nextId, docs,
                   nextOid, now>>

\* the text the catch block of each placeholder route sends
FailedTo ==
    [LIST |-> "Failed to fetch jobs", GET |-> "Failed to fetch job",
     POST |-> "Failed to create job", PUT |-> "Failed to update job",
     DELETE |-> "Failed to delete job"]

\* App.js: the try block of a placeholder route throws
StubCatch(method, message) ==
    /\ impl = "stub" /\ Idle
    /\ req' = Request(method, 0, 0, NoBody)
    /\ res' = ErrorResponse({"error"},
                   [message |-> FailedTo[method], details |-> message])
    /\ UNCHANGED <<impl, others, strictQuery, owner, instance, jobs, nextId, docs,
                   nextOid, now>>

---------------------------------------------------------------------------
(* Requests in flight together on the owner-scoped router.  A handler runs *)
(* to its next await in one step; each await is one operation of the       *)
(* database.  PUT: findOne, then save.  DELETE: findOne, then              *)
(* findByIdAndDelete.                                                      *)

Procs == {1, 2}

\* where a handler is: not started, waiting for save(), waiting for
\* findByIdAndDelete(), or answered
Call(method, user, id, body, pc, job, paths, response) ==
    [method |-> method, user |-> user, id |-> id, body |-> body, pc |-> pc,
     job |-> job, paths |-> paths, res |-> response]

NoCall == Call("none", 0, 0, NoBody, "idle", <<>>, {}, NoResponse)

\* the paths of the document the handler has modified: a path set to the
\* value it already had is not modified
modifiedPaths(old, job) == {f \in DOMAIN old : old[f] # job[f]}

\* an update that inserts the document when none has its _id
updateOne_Upsert(ds, job, paths) ==
    IF \E i \in 1..Len(ds) : ds[i]._id = job._id
      THEN [i \in 1..Len(ds) |->
              IF ds[i]._id = job._id
                THEN [f \in DOMAIN ds[i] |->
                        IF f \in paths THEN job[f] ELSE ds[i][f]]
                ELSE ds[i]]
      ELSE Append(ds, job)

\* what save() of a document that is not new sends: updateOne({_id},
\* {$set: the modified paths}); other paths of the stored document stay
updateOne(ds, job, paths) ==
    [i \in 1..Len(ds) |->
       IF ds[i]._id = job._id
         THEN [f \in DOMAIN ds[i] |-> IF f \in paths THEN job[f] ELSE ds[i][f]]
         ELSE ds[i]]

\* PUT up to "await job.save()": the rules, findOne, the assignments, the
\* timestamp and the validation of the document
PutFind(p, user, id, body) ==
    /\ impl = "api" /\ calls[p].pc = "idle"
    /\ LET rejected == handleValidationErrors(
                           idValidationRules(id) \o updateJobValidationRules(body))
           i == findOne(docs, id, user)
           job == [Assign(docs[i], body) EXCEPT !.updatedAt = now]
           answered(response) ==
               Call("PUT", user, id, body, "done", <<>>, {}, response)
       IN  calls' = [calls EXCEPT ![p] =
               IF rejected # NoResponse THEN answered(rejected)
               ELSE IF i = 0 THEN answered(NotFound(ApiKeys))
               ELSE IF schemaValidate(job) # <<>>
                 THEN answered(ServerError(ApiKeys))
               ELSE Call("PUT", user, id, body, "save", <<job>>,
                         modifiedPaths(docs[i], job), NoResponse)]
    /\ UNCHANGED <<impl, NODE_ENV, component, pressed, strictQuery, owner, instance, jobs, nextId,
                   docs, nextOid, now, req, res>>

\* save() reaches the database: the update is applied to the document with
\* that _id; when there is none, save() throws DocumentNotFoundError
PutSave(p) ==
    /\ impl = "api" /\ calls[p].pc = "save"
    /\ LET job == calls[p].job[1]
           matched == \E i \in 1..Len(docs) : docs[i]._id = job._id
       IN  /\ docs' = updateOne(docs, job, calls[p].paths)
           /\ calls' = [calls EXCEPT
                  ![p].pc = "done",
                  ![p].res = IF matched
                               THEN Response(200, {"success", "message", "data"},
                                             TRUE, <<>>, <<job>>)
                               ELSE ServerError(ApiKeys)]
    /\ UNCHANGED <<impl, NODE_ENV, component, pressed, strictQuery, owner, instance, jobs, nextId,
                   nextOid, now, req, res>>

\* DELETE up to "await Job.findByIdAndDelete": the rule and findOne
DeleteFind(p, user, id) ==
    /\ impl = "api" /\ calls[p].pc = "idle"
    /\ LET rejected == handleValidationErrors(idValidationRules(id))
           answered(response) ==
               Call("DELETE", user, id, NoBody, "done", <<>>, {}, response)
       IN  calls' = [calls EXCEPT ![p] =
               IF rejected # NoResponse THEN answered(rejected)
               ELSE IF findOne(docs, id, user) = 0
                 THEN answered(NotFound(ApiKeys))
               ELSE Call("DELETE", user, id, NoBody, "delete", <<>>, {},
                         NoResponse)]
    /\ UNCHANGED <<impl, NODE_ENV, component, pressed, strictQuery, owner, instance, jobs, nextId,
                   docs, nextOid, now, req, res>>

\* findByIdAndDelete reaches the database; what it returns is not looked at
DeleteRemove(p) ==
    /\ impl = "api" /\ calls[p].pc = "delete"
    /\ docs' = findByIdAndDelete(docs, calls[p].id)
    /\ calls' = [calls EXCEPT
           ![p].pc = "done",
           ![p].res = Response(200, ApiKeys, TRUE, <<>>, <<>>)]
    /\ UNCHANGED <<impl, NODE_ENV, component, pressed, strictQuery, owner, instance, jobs, nextId,
                   nextOid, now, req, res>>

---------------------------------------------------------------------------
(* The JobList component: src/frontend/src/components/JobList.jsx and the  *)
(* older src/unnamed/part_001.  A job is its id and the data of the form   *)
(* it was saved from.                                                      *)

\* the day of every reading of the clock
Today == "2024-03-01"

\* what a valid form submits
FormDatas ==
    {[company |-> "Acme", position |-> "Dev", status |-> "applied",
      dateApplied |-> "", notes |-> ""],
     [company |-> "Initech", position |-> "Tester", status |-> "offer",
      dateApplied |-> "2024-02-01", notes |-> "referral"]}

\* useState([...]), useState(false), useState(null); the texts are those of
\* JobList.jsx, part_001 starts with the same two ids and other texts
InitialComponent ==
    [jobs |-> << [id |-> 1,
                  data |-> [company |-> "Tech Corp",
                            position |-> "Frontend Developer",
                            status |-> "applied", dateApplied |-> "2024-01-15",
                            notes |-> "Applied through company website"]],
                 [id |-> 2,
                  data |-> [company |-> "StartupXYZ",
                            position |-> "Full Stack Developer",
                            status |-> "interview", dateApplied |-> "2024-01-10",
                            notes |-> "Phone screening completed"]] >>,
     showForm |-> FALSE, editingJob |-> <<>>]

\* Date.now(): milliseconds since 1970, far above the ids of the two
\* initial jobs
Epoch == 10
DateNow(t) == Epoch + t

\* prevJobs.map(job => job.id === id ? {...jobData, id} : job)
mapReplace(js, id, jobData) ==
    [i \in 1..Len(js) |->
       IF js[i].id = id THEN [id |-> id, data |-> jobData] ELSE js[i]]

\* prevJobs.filter(job => job.id !== jobId)
filterOut(js, jobId) == SelectSeq(js, LAMBDA job : job.id # jobId)

UiFrame ==
    UNCHANGED <<impl, NODE_ENV, calls, strictQuery, owner, instance, jobs, nextId,
                docs, nextOid, req, res>>

\* JobList.jsx, the button 'Add New Job': onClick={() => setShowForm(true)}
ShowFormClicked ==
    /\ impl = "JobList.jsx"
    /\ component' = [component EXCEPT !.showForm = TRUE]
    /\ pressed' = "AddNew"
    /\ UNCHANGED now /\ UiFrame

handleEditJob(job) ==
    /\ impl = "JobList.jsx"
    /\ component' = [component EXCEPT !.editingJob = <<job>>, !.showForm = TRUE]
    /\ pressed' = "Edit"
    /\ UNCHANGED now /\ UiFrame

\* the form is submitted when no job is being edited; the clock has
\* advanced since the last submission
handleAddJob(jobData) ==
    /\ impl = "JobList.jsx"
    /\ component.showForm /\ component.editingJob = <<>>
    /\ now < MaxTime /\ now' = now + 1
    /\ LET added == [id |-> DateNow(now'),
                     data |-> [jobData EXCEPT !.dateApplied =
                                 IF @ = "" THEN Today ELSE @]]
       IN  component' = [component EXCEPT !.jobs = Append(@, added),
                                          !.showForm = FALSE]
    /\ pressed' = "Submit"
    /\ UiFrame

\* the form is submitted while a job is being edited
handleUpdateJob(updatedJobData) ==
    /\ impl = "JobList.jsx"
    /\ component.showForm /\ component.editingJob # <<>>
    /\ component' = [component EXCEPT
           !.jobs = mapReplace(@, component.editingJob[1].id, updatedJobData),
           !.showForm = FALSE, !.editingJob = <<>>]
    /\ pressed' = "Submit"
    /\ UNCHANGED now /\ UiFrame

\* the user confirms the deletion
handleDeleteJob(jobId) ==
    /\ impl = "JobList.jsx"
    /\ component' = [component EXCEPT !.jobs = filterOut(@, jobId)]
    /\ pressed' = "Delete"
    /\ UNCHANGED now /\ UiFrame

handleCancelForm ==
    /\ impl = "JobList.jsx"
    /\ component.showForm
    /\ component' = [component EXCEPT !.showForm = FALSE, !.editingJob = <<>>]
    /\ pressed' = "Cancel"
    /\ UNCHANGED now /\ UiFrame

\* part_001, the button 'Add New Job'
handleAddNew ==
    /\ impl = "part_001"
    /\ component' = [component EXCEPT !.editingJob = <<>>, !.showForm = TRUE]
    /\ pressed' = "AddNew"
    /\ UNCHANGED now /\ UiFrame

handleEdit(job) ==
    /\ impl = "part_001"
    /\ component' = [component EXCEPT !.editingJob = <<job>>, !.showForm = TRUE]
    /\ pressed' = "Edit"
    /\ UNCHANGED now /\ UiFrame

\* part_001: one handler for both submissions
handleSave(jobData) ==
    /\ impl = "part_001"
    /\ component.showForm
    /\ IF component.editingJob # <<>>
         THEN /\ component' = [component EXCEPT
                     !.jobs = mapReplace(@, component.editingJob[1].id, jobData),
                     !.showForm = FALSE, !.editingJob = <<>>]
              /\ UNCHANGED now
         ELSE /\ now < MaxTime /\ now' = now + 1
              /\ component' = [component EXCEPT
                     !.jobs = Append(@, [id |-> DateNow(now'), data |-> jobData]),
                     !.showForm = FALSE, !.editingJob = <<>>]
    /\ pressed' = "Submit"
    /\ UiFrame

handleCancel ==
    /\ impl = "part_001"
    /\ component.showForm
    /\ component' = [component EXCEPT !.showForm = FALSE, !.editingJob = <<>>]
    /\ pressed' = "Cancel"
    /\ UNCHANGED now /\ UiFrame

handleDelete(jobId) ==
    /\ impl = "part_001"
    /\ component' = [component EXCEPT !.jobs = filterOut(@, jobId)]
    /\ pressed' = "Delete"
    /\ UNCHANGED now /\ UiFrame

Impls == {"mem", "api", "stub", "class", "server", "part_007"}

Init ==
    /\ impl \in Impls
    /\ jobs = IF impl = "mem" THEN SeedJobs ELSE <<>>
    /\ nextId = 3
    /\ docs = <<>>
    /\ nextOid = 1
    /\ strictQuery \in IF impl = "api" THEN BOOLEAN ELSE {FALSE}
    /\ owner = <<>>
    /\ instance = <<>>
    /\ NODE_ENV \in IF impl \in {"stub", "server", "part_007"}
                      THEN Environments ELSE {"production"}
    /\ calls = [p \in Procs |-> NoCall]
    /\ component = InitialComponent
    /\ pressed = "none"
    /\ now = Now0
    /\ req = NoRequest
    /\ res = NoResponse

Next ==
    \/ \E body \in MemBodies : MemPost(body)
    \/ \E id \in IdParams, body \in MemPutBodies : MemPut(id, body)
    \/ \E id \in IdParams : MemDelete(id)
    \/ \E id \in IdParams : MemGet(id)
    \/ \E query \in MemQueries : MemList(query)
    \/ \E user \in Users, body \in ApiPostBodies : ApiPost(user, body)
    \/ \E user \in Users, id \in ApiIdParams, body \in ApiPutBodies :
         ApiPut(user, id, body)
    \/ \E user \in Users, id \in ApiIdParams : ApiDelete(user, id)
    \/ \E user \in Users, id \in ApiIdParams : ApiGet(user, id)
    \/ \E user \in Users, query \in ApiQueries : ApiList(user, query)
    \/ \E body \in MemBodies : StubPost(body)
    \/ \E id \in IdParams, body \in MemPutBodies : StubPut(id, body)
    \/ \E id \in IdParams : StubDelete(id)
    \/ \E id \in IdParams : StubGet(id)
    \/ \E query \in MemQueries : StubList(query)
    \/ \E jobData \in JobDatas : JobCreate(jobData)
    \/ \E updates \in JobUpdates : JobUpdate(updates)
    \/ \E updates \in JobUpdates : JobUpdateById(1, updates)
    \/ \E jobId \in JobIds : JobFindById(jobId)
    \/ \E message \in InternalMessages : ServerErrorMiddleware(message)
    \/ \E message \in InternalMessages : GlobalErrorMiddleware(message)
    \/ \E method \in DOMAIN FailedTo, message \in InternalMessages :
         StubCatch(method, message)
    \/ Tick
    \/ ResponseSent

Spec == Init /\ [][Next]_vars

---------------------------------------------------------------------------
(* The owner-scoped router on a collection that already holds documents:  *)
(* up to MaxDocs documents, each as POST stores it for a valid body.       *)

MaxDocs == 2

\* the bodies the documents were created from: without and with a status
ListBodies ==
    {ApiBody(Str(Dev), Str(Acme), Str(NYC), Undefined, Undefined),
     ApiBody(Str(Dev), Str(Acme), Str(NYC), Str(Offer), Undefined)}

\* the collections POST can have built: ObjectIds in insertion order, and
\* creation times that do not decrease
Collections ==
    UNION {{[k \in 1..n |-> NewDocument(1, b[k], k, t[k])] :
              b \in [1..n -> ListBodies],
              t \in {f \in [1..n -> Now0..MaxTime] :
                       \A k \in 1..(n - 1) : f[k] <= f[k + 1]}} :
           n \in 0..MaxDocs}

\* the queries tried on these collections: also a search, and the default
\* order in pages of size one
ListQueries ==
    ApiQueries \cup
    {Query(Undefined, Undefined, Undefined, Str(AcmeLower), Undefined, Undefined,
           Undefined, Undefined),
     Paging(Num(1), Num(1)), Paging(Num(2), Num(1))}

InitList ==
    /\ impl = "api"
    /\ jobs = <<>>
    /\ nextId = 3
    /\ docs \in Collections
    /\ nextOid = Len(docs) + 1
    /\ strictQuery \in BOOLEAN
    /\ owner \in [1..Len(docs) -> Users]
    /\ instance = <<>>
    /\ NODE_ENV = "production"
    /\ calls = [p \in Procs |-> NoCall]
    /\ component = InitialComponent
    /\ pressed = "none"
    /\ now = MaxTime
    /\ req = NoRequest
    /\ res = NoResponse

NextList ==
    \/ \E user \in Users, query \in ListQueries : ApiList(user, query)
    \/ \E user \in Users, id \in 1..(MaxDocs + 1) : ApiGet(user, id)
    \/ \E user \in Users, id \in 1..(MaxDocs + 1), body \in ApiPutBodies :
         ApiPut(user, id, body)
    \/ \E user \in Users, id \in 1..(MaxDocs + 1) : ApiDelete(user, id)
    \/ \E user \in Users, body \in ListBodies : ApiPost(user, body)
    \/ ResponseSent

SpecList == InitList /\ [][NextList]_vars

---------------------------------------------------------------------------
(* Two requests in flight on a collection that holds one document, made by *)
(* the user who created it.                                                *)

\* the body the document was created from
ConcBody == ApiBody(Str(Dev), Str(Acme), Str(NYC), Undefined, Undefined)

\* the bodies of the updates: a new status with the title as it is, a new
\* title with the status as it is, and a status the schema rejects
ConcPutBodies ==
    {ApiBody(Str(Dev), Undefined, Undefined, Str(Offer), Undefined),
     ApiBody(Str(Ab), Undefined, Undefined, Str(Applied), Undefined),
     ApiBody(Undefined, Undefined, Undefined, Str(Interview), Undefined)}

\* the id of the document and an id without document
ConcIds == {1, 2}

InitConc ==
    /\ impl = "api"
    /\ jobs = <<>>
    /\ nextId = 3
    /\ docs = <<NewDocument(1, ConcBody, 1, Now0)>>
    /\ nextOid = 2
    /\ strictQuery \in BOOLEAN
    /\ owner = <<1>>
    /\ instance = <<>>
    /\ NODE_ENV = "production"
    /\ calls = [p \in Procs |-> NoCall]
    /\ component = InitialComponent
    /\ pressed = "none"
    /\ now = Now0
    /\ req = NoRequest
    /\ res = NoResponse

NextConc ==
    \/ \E p \in Procs, id \in ConcIds, body \in ConcPutBodies :
         PutFind(p, owner[1], id, body)
    \/ \E p \in Procs : PutSave(p)
    \/ \E p \in Procs, id \in ConcIds : DeleteFind(p, owner[1], id)
    \/ \E p \in Procs : DeleteRemove(p)
    \/ Tick

SpecConc == InitConc /\ [][NextConc]_vars

---------------------------------------------------------------------------
(* The JobList component in the hands of a user.                           *)

\* the jobs shown, each with its Edit and its Delete button
Shown == Range(component.jobs)

InitUI ==
    /\ impl \in {"JobList.jsx", "part_001"}
    /\ jobs = <<>>
    /\ nextId = 3
    /\ docs = <<>>
    /\ nextOid = 1
    /\ strictQuery = FALSE
    /\ owner = <<>>
    /\ instance = <<>>
    /\ NODE_ENV = "production"
    /\ calls = [p \in Procs |-> NoCall]
    /\ component = InitialComponent
    /\ pressed = "none"
    /\ now = Now0
    /\ req = NoRequest
    /\ res = NoResponse

NextUI ==
    \/ ShowFormClicked
    \/ \E job \in Shown : handleEditJob(job)
    \/ \E jobData \in FormDatas : handleAddJob(jobData)
    \/ \E jobData \in FormDatas : handleUpdateJob(jobData)
    \/ \E job \in Shown : handleDeleteJob(job.id)
    \/ handleCancelForm
    \/ handleAddNew
    \/ \E job \in Shown : handleEdit(job)
    \/ \E jobData \in FormDatas : handleSave(jobData)
    \/ handleCancel
    \/ \E job \in Shown : handleDelete(job.id)

SpecUI == InitUI /\ [][NextUI]_vars

---------------------------------------------------------------------------
(* Properties.  Create is POST or Job.create, update is PUT, job.update or *)
(* Job.updateById; the stores are the array of the in-memory router, the   *)
(* collection of the owner-scoped router and the instance of the class.    *)

IsCreate(r) == r.method \in {"POST", "create"}
IsUpdate(r) == r.method \in {"PUT", "update", "updateById"}
\* a 400 response, or the Error that validate()'s caller throws
IsValidationError(r) == r.status = 400 \/ "throw" \in r.keys
IsError(r) == r.status >= 400 \/ "throw" \in r.keys
IsSuccess(r) == r.status \in {200, 201} \/ "return" \in r.keys
Named(r) == Range(r.fields)
store == <<jobs, nextId, docs, nextOid, instance>>
StoredIds ==
    {jobs[i].id : i \in 1..Len(jobs)} \cup {docs[i]._id : i \in 1..Len(docs)}

\* C1: an update addressed to a well-formed id that is not in the store is
\* answered with 404 Not Found, whatever the body, and leaves the store
\* unchanged.
C1_UpdateOfMissingIdIsNotFound ==
    [][(req'.method = "PUT" /\ req'.id # NaN /\ req'.id \notin StoredIds)
         => (res'.status = 404 /\ store' = store)]_vars

\* C2: a create whose body lacks title or company is rejected with a
\* validation error that names each of the two that is missing, and adds
\* no record (in-memory router, owner-scoped router, Job class).
C2_MissingRequiredFieldRejected ==
    [][(impl \in {"mem", "api", "class"} /\ IsCreate(req'))
         => /\ req'.body.title = Undefined
                 => IsValidationError(res') /\ "title" \in Named(res')
                    /\ store' = store
            /\ req'.body.company = Undefined
                 => IsValidationError(res') /\ "company" \in Named(res')
                    /\ store' = store]_vars

\* the owner-scoped router has rejected a create without company
C2_Witness ==
    /\ impl = "api" /\ req.method = "POST"
    /\ req.body.company = Undefined /\ req.body.title # Undefined
    /\ res.status = 400 /\ "company" \in Named(res)
    /\ docs = <<>>

\* the fields of a body that break a rule of the in-memory router
MemViolatedFields(body) ==
    {f \in Range(requiredFields) : Falsy(body[f])}
    \cup (IF IsStringBetween(body.title, 3, 100) THEN {} ELSE {"title"})
    \cup (IF IsStringBetween(body.company, 2, 50) THEN {} ELSE {"company"})
    \cup (IF IsStringBetween(body.location, 3, 100) THEN {} ELSE {"location"})
    \cup (IF IsStringBetween(body.description, 10, 1000) THEN {} ELSE {"description"})

\* C3: the validation error of a create names every field of the body
\* that breaks a rule, not only the first one found.
C3_EveryViolatedFieldNamed ==
    (impl = "mem" /\ IsCreate(req) /\ IsValidationError(res))
        => MemViolatedFields(req.body) \subseteq Named(res)

\* C4: a create or an update that answers with an error has changed
\* nothing: the records and the id counter are what they were.
C4_ErrorLeavesStoreUnchanged ==
    [][((IsCreate(req') \/ IsUpdate(req')) /\ IsError(res'))
         => store' = store]_vars

\* an update of a stored document was assigned, failed the schema's
\* validation on save, and was answered with 500
C4_Witness ==
    /\ impl = "api" /\ req.method = "PUT" /\ res.status = 500
    /\ req.id \in StoredIds
    /\ req.body.title = Str(Blank3)

C6_ApplicationDateNotInFuture ==
    \A i \in 1..Len(docs) : docs[i].applicationDate <= docs[i].updatedAt

\* C7: the company and the title of every stored record are non-empty
\* after trimming.
C7_TitleAndCompanyNonEmpty ==
    /\ \A i \in 1..Len(jobs) : Trim(jobs[i].title) # <<>> /\ Trim(jobs[i].company) # <<>>
    /\ \A i \in 1..Len(docs) :
         Trim(toString(docs[i].title)) # <<>> /\ Trim(toString(docs[i].company)) # <<>>

C9_UpdatedNotBeforeCreated ==
    /\ \A i \in 1..Len(jobs) : jobs[i].updatedAt >= jobs[i].createdAt
    /\ \A i \in 1..Len(instance) : instance[i].updatedAt >= instance[i].createdAt

\* a seed record has been updated after the clock advanced
C9_Witness ==
    /\ impl = "mem" /\ req.method = "PUT" /\ res.status = 200
    /\ \E i \in 1..Len(jobs) :
         jobs[i].id = 1 /\ jobs[i].updatedAt > Now0 /\ jobs[i].createdAt = Seed1Date

\* the record an update request addresses, as a sequence of at most one
Target(js, ds, inst, r) ==
    IF impl = "mem" THEN SelectSeq(js, LAMBDA j : j.id = r.id)
    ELSE IF impl = "api"
      THEN SelectSeq(ds, LAMBDA d : d._id = r.id)
    ELSE inst

C11_IdAndCreatedAtImmutable ==
    [][/\ IsUpdate(req') =>
            /\ Len(jobs') = Len(jobs) /\ Len(docs') = Len(docs)
            /\ \A i \in 1..Len(jobs) :
                 jobs'[i].id = jobs[i].id /\ jobs'[i].createdAt = jobs[i].createdAt
            /\ \A i \in 1..Len(docs) :
                 docs'[i]._id = docs[i]._id /\ docs'[i].createdAt = docs[i].createdAt
            /\ (impl = "class" /\ IsSuccess(res') /\ instance # <<>>) =>
                 /\ instance'[1].id = instance[1].id
                 /\ instance'[1].createdAt = instance[1].createdAt
       /\ (req'.method = "GET" /\ res'.status = 200 /\ impl \in {"mem", "api"}) =>
            res'.data[1] \in Range(jobs) \cup Range(docs)]_vars

\* an update whose body carries another id and another createdAt has
\* succeeded and answered with the record's own id and createdAt
C11_Witness ==
    /\ impl = "mem" /\ req.method = "PUT" /\ res.status = 200
    /\ Given(req.body.id) /\ Given(req.body.createdAt)
    /\ res.data[1].id = req.id /\ req.body.id.n # req.id
    /\ res.data[1].createdAt # req.body.createdAt.n
    /\ res.data[1] \in Range(jobs)

\* the fields a body gives all satisfy the rules of the router
GivenFieldsValid(body) ==
    IF impl = "mem"
      THEN /\ Given(body.title) => IsStringBetween(body.title, 3, 100)
           /\ Given(body.company) => IsStringBetween(body.company, 2, 50)
           /\ Given(body.location) => IsStringBetween(body.location, 3, 100)
           /\ Given(body.description) => IsStringBetween(body.description, 10, 1000)
      ELSE updateJobValidationRules(body) = <<>>

\* the value a stored field has after body[f] was applied to it
Applied1(old, v) ==
    IF ~Given(v) THEN old
    ELSE IF impl = "mem" THEN Trim(v.s)
    ELSE SetString(v)

\* C12: an update of an existing record whose body gives only some of the
\* mutable fields, each of them valid, succeeds, sets the fields given and
\* leaves the other fields as they were.
C12_PartialUpdateSetsOnlyGivenFields ==
    [][(impl \in {"mem", "api"} /\ req'.method = "PUT"
        /\ Target(jobs, docs, instance, req') # <<>>
        /\ GivenFieldsValid(req'.body))
         => LET old == Target(jobs, docs, instance, req')[1]
                new == Target(jobs', docs', instance', req')[1]
            IN  /\ IsSuccess(res')
                /\ new.title = Applied1(old.title, req'.body.title)
                /\ new.company = Applied1(old.company, req'.body.company)
                /\ new.location = Applied1(old.location, req'.body.location)
                /\ new.description = Applied1(old.description, req'.body.description)
                /\ new.salary = old.salary]_vars

\* C13: a valid create stores a record that has, for each field the
\* client supplied, the value supplied, and a fetch of the id of a created
\* record succeeds and returns that record.
C13_CreateThenFetchRoundTrip ==
    /\ (impl = "mem" /\ req.method = "POST" /\ res.status = 201) =>
         /\ res.data[1].title = req.body.title.s
         /\ res.data[1].company = req.body.company.s
         /\ res.data[1].location = req.body.location.s
         /\ res.data[1].description = req.body.description.s
         /\ res.data[1] \in Range(jobs)
    /\ (impl = "mem" /\ req.method = "GET" /\ req.id \in StoredIds) =>
         /\ res.status = 200
         /\ res.data = SelectSeq(jobs, LAMBDA j : j.id = req.id)
    /\ (impl = "class" /\ req.method = "create" /\ IsSuccess(res)) =>
         /\ res.data[1].title = req.body.title
         /\ res.data[1].company = req.body.company
         /\ Given(req.body.status) => res.data[1].status = req.body.status
    /\ (impl = "class" /\ req.method = "findById"
        /\ \E i \in 1..Len(instance) : instance[i].id = req.id) =>
         /\ IsSuccess(res)
         /\ res.data # <<>> /\ res.data[1].id = req.id

\* C14: a delete of a record that exists removes it and reports success;
\* a delete of an id that has no record (such as the second of two deletes
\* of the same id) reports 404 Not Found and leaves the store unchanged;
\* so for every delete handler.
C14_SecondDeleteIsNotFound ==
    [][(req'.method = "DELETE" /\ req'.id # NaN)
         => IF Target(jobs, docs, instance, req') # <<>>
              THEN IsSuccess(res') /\ Target(jobs', docs', instance', req') = <<>>
              ELSE res'.status = 404 /\ store' = store]_vars

\* the ids given out so far: the seeds' and those of the records created
IssuedIds == IF impl = "mem" THEN 1..(nextId - 1) ELSE 1..(nextOid - 1)
\* the id of an item of a list response
ItemId(r) == IF impl = "mem" THEN r.id ELSE r._id

\* what C15 asks of one step
DeletedIdStaysAway ==
    impl \in {"mem", "api"} =>
      /\ (req'.method = "DELETE" /\ IsSuccess(res')) =>
           req'.id \in StoredIds /\ req'.id \notin StoredIds'
      /\ \A i \in IssuedIds : i \notin StoredIds =>
           /\ i \notin StoredIds'
           /\ (req'.method = "GET" /\ req'.id = i) => res'.status = 404
           /\ (req'.method = "LIST" /\ IsSuccess(res')) =>
                \A k \in 1..Len(res'.data) : ItemId(res'.data[k]) # i

AtPage(query, p) == [query EXCEPT !.page = Num(p)]

\* the ids of the items of a response, in order
ItemIds(r) == [k \in 1..Len(r.data) |-> r.data[k]._id]

\* the responses to pages 1..n of a query are a scan without repetition or
\* omission: each reports its own page number, no id is in two pages or
\* twice in one, and the ids are those of all the records selected
IsCompleteScan(pages, user, query) ==
    LET n == Len(pages)
        selected == {d._id : d \in Range(find(docs, user, query))}
    IN  /\ \A p \in 1..n : pages[p].meta.currentPage = p
        /\ \A p \in 1..n : \A k, m \in 1..Len(pages[p].data) :
             ItemIds(pages[p])[k] = ItemIds(pages[p])[m] => k = m
        /\ \A p, r \in 1..n : p # r =>
             Range(ItemIds(pages[p])) \cap Range(ItemIds(pages[r])) = {}
        /\ UNION {Range(ItemIds(pages[p])) : p \in 1..n} = selected
        /\ \A p \in 1..n : pages[p].meta.totalItems = Cardinality(selected)

\* C16: with the store unchanged, whatever responses the list route gives
\* for pages 1..totalPages of one filter, sort and limit, they contain
\* every selected record exactly once and report the page requested.
C16_PagesPartitionTheResult ==
    impl = "api" =>
      \A user \in Users, query \in ListQueries :
        queryValidationRules(query) = <<>> =>
          \A first \in listJobs(docs, user, AtPage(query, 1)) :
            \A pages \in [1..first.meta.totalPages ->
                            UNION {listJobs(docs, user, AtPage(query, p)) :
                                     p \in 1..first.meta.totalPages}] :
              (\A p \in 1..first.meta.totalPages :
                   pages[p] \in listJobs(docs, user, AtPage(query, p)))
                => IsCompleteScan(pages, user, query)

\* C17: a list response has no more items than the limit requested, and
\* the page size it is cut with is never above the maximum of 100, whatever
\* limit the request gives.
C17_PageSizeClamped ==
    (impl \in {"mem", "api"} /\ req.method = "LIST" /\ IsSuccess(res)) =>
        /\ Given(req.query.limit) => Len(res.data) <= req.query.limit.n
        /\ Len(res.data) <= MaxPageSize
        /\ res.meta.limit <= MaxPageSize

\* the text of a field of a stored record
FieldText(v) == IF impl = "mem" THEN v ELSE toString(v)
\* text occurs in the field, letters compared without case
ContainsText(v, text) == includes(toLowerCase(FieldText(v)), toLowerCase(text))

\* the record satisfies every filter the query supplies
SatisfiesFilters(r, user, query) ==
    /\ impl = "api" => owner[r._id] = user
    /\ Given(query.status) => impl = "api" /\ r.status = query.status
    /\ Given(query.company) => ContainsText(r.company, query.company.s)
    /\ Given(query.location) => ContainsText(r.location, query.location.s)
    /\ Given(query.search) =>
         \/ ContainsText(r.title, query.search.s)
         \/ ContainsText(r.company, query.search.s)
         \/ ContainsText(r.description, query.search.s)

\* C18: the records a list request selects are exactly the stored records
\* that satisfy all the filters supplied: the response counts them all and
\* each of its items is one of them.
C18_FiltersSelectExactly ==
    (impl \in {"mem", "api"} /\ req.method = "LIST" /\ IsSuccess(res)) =>
        LET stored == IF impl = "mem" THEN jobs ELSE docs
            expected == SelectSeq(stored, LAMBDA r :
                            SatisfiesFilters(r, req.user, req.query))
        IN  /\ res.meta.totalItems = Len(expected)
            /\ Range(res.data) \subseteq Range(expected)

\* the items come in the order of the key, in the direction asked for
OrderedBy(items, sortBy, sortOrder) ==
    \A k \in 1..(Len(items) - 1) :
        IF sortOrder = Desc THEN ~KeyLess(items[k], items[k + 1], sortBy)
        ELSE ~KeyLess(items[k + 1], items[k], sortBy)

\* C19: a list request with a sortBy outside the allow-list is rejected;
\* the items of a list response are ordered by the requested field in the
\* requested direction, and by createdAt descending when none is requested.
C19_ItemsOrderedAsRequested ==
    (impl \in {"mem", "api"} /\ req.method = "LIST" /\ res # NoResponse) =>
        LET sortBy == IF Given(req.query.sortBy) THEN req.query.sortBy.s
                      ELSE CreatedAtName
            sortOrder == IF Given(req.query.sortOrder) THEN req.query.sortOrder.s
                         ELSE Desc
        IN  /\ sortBy \notin SortFields => IsError(res)
            /\ IsSuccess(res) => OrderedBy(res.data, sortBy, sortOrder)

\* the documents created by the requests of other users than user
OthersDocuments(ds, user) == {d \in Range(ds) : owner[d._id] # user}

\* one request answered without reaching the documents of other users
OthersOutOfReach ==
    (impl = "api" /\ Idle /\ req' # NoRequest) =>
        /\ OthersDocuments(docs, req'.user) \subseteq Range(docs')
        /\ (/\ req'.method \in {"GET", "PUT", "DELETE"}
            /\ req'.id \in 1..Len(owner)
            /\ owner[req'.id] # req'.user)
               => (res'.status = 404 \/ IsValidationError(res'))
        /\ IsSuccess(res') =>
             \A k \in 1..Len(res'.data) : owner'[res'.data[k]._id] = req'.user

\* C20: on the owner-scoped router a request of user u never returns,
\* modifies or deletes a document another user created: get, update and
\* delete of such a document are answered NotFound and leave it as it was,
\* and a list response holds only documents u created.
C20_OtherUsersRecordsOutOfReach == [][OthersOutOfReach]_vars

\* the ids of the records of the in-memory store
MemIds(js) == {js[i].id : i \in 1..Len(js)}

\* the ids are pairwise distinct and all below the counter
IdsDistinctBelowCounter(js, counter) ==
    /\ \A i, k \in 1..Len(js) : js[i].id = js[k].id => i = k
    /\ \A i \in 1..Len(js) : js[i].id < counter

\* the counter never goes back, and a record that enters the store takes an
\* id the counter had not passed: not one given out before
NewIdsAreFresh ==
    impl = "mem" =>
        /\ nextId' >= nextId
        /\ \A id \in MemIds(jobs') \ MemIds(jobs) : id >= nextId
        /\ IdsDistinctBelowCounter(jobs', nextId')

\* C26: in the in-memory store the ids of the stored records are pairwise
\* distinct, nextId is greater than each of them, and a record created after
\* a delete never takes the id the delete freed.
C26_IdsUniqueAndNeverReused ==
    /\ [](impl = "mem" => IdsDistinctBelowCounter(jobs, nextId))
    /\ [][NewIdsAreFresh]_vars

\* a record has been created after a seed record was deleted
C26_Witness ==
    /\ impl = "mem" /\ req.method = "POST" /\ res.status = 201
    /\ res.data[1].id = nextId - 1
    /\ MemIds(jobs) # 1..(nextId - 1)

\* the user a stored document names as its owner, 0 when it names none
StoredOwner(d) == IF "userId" \in DOMAIN d THEN d.userId ELSE 0

\* C25: every record of the owner-scoped router belongs to the user whose
\* create request made it, whatever userId the bodies of the create and of
\* later updates carry.
C25_OwnerIsCreatorForever ==
    impl = "api" =>
        \A i \in 1..Len(docs) : StoredOwner(docs[i]) = owner[docs[i]._id]

\* the keys under which a response body carries its payload: the data, or
\* the error or validation details
PayloadKeys == {"data", "error", "errors"}

\* C22: every response of the owner-scoped router and of the placeholder
\* router, success or error, has a success indicator, a message, and a data
\* payload or an error payload.
C22_SameEnvelopeEverywhere ==
    (impl \in {"api", "stub"} /\ res # NoResponse) =>
        /\ "success" \in res.keys
        /\ "message" \in res.keys
        /\ res.keys \cap PayloadKeys # {}

\* the request asks to store data the schema of the record rejects
RejectedBySchema(r) ==
    \/ /\ IsCreate(r)
       /\ schemaValidate(NewDocument(r.user, r.body, 0, now)) # <<>>
    \/ /\ IsUpdate(r)
       /\ findOne(docs, r.id, r.user) # 0
       /\ schemaValidate(Assign(docs[findOne(docs, r.id, r.user)], r.body)) # <<>>

\* C23: on the owner-scoped router a successful create is answered 201 and
\* every other success 200, and a create or update whose data the schema
\* rejects is answered 400, never 500.
C23_OneStatusPerOutcome ==
    (impl = "api" /\ res # NoResponse) =>
        /\ IsSuccess(res) => res.status = IF IsCreate(req) THEN 201 ELSE 200
        /\ res.status \in {200, 201, 400, 404, 500}
        /\ RejectedBySchema(req) => res.status = 400

\* the texts a 500 response shows for the error
ErrorTexts(r) ==
    {r.data[1].message}
    \cup (IF "details" \in DOMAIN r.data[1] THEN {r.data[1].details} ELSE {})

\* C24: in production the response to an unexpected internal error shows
\* none of the error's own message, whichever middleware or catch block
\* answers, so errors with different messages get the same response.
C24_OnlyGenericMessageInProduction ==
    (/\ impl \in {"stub", "server", "part_007"}
     /\ NODE_ENV = "production" /\ res.status = 500)
        => ErrorTexts(res) \cap (InternalMessages \ {""}) = {}

\* the document the two requests find in the collection
ConcDocument == NewDocument(1, ConcBody, 1, Now0)

\* a document without the time of its last update
Content(d) == [f \in DOMAIN d \ {"updatedAt"} |-> d[f]]

\* the document after the update with body first and the one with body
\* second, one after the other
Serial(first, second) == Assign(Assign(ConcDocument, first), second)

\* both requests are answered updates of the document, with bodies the
\* schema accepts
TwoUpdatesAnswered ==
    \A p \in Procs :
        /\ calls[p].method = "PUT" /\ calls[p].id = 1 /\ calls[p].pc = "done"
        /\ schemaValidate(Assign(ConcDocument, calls[p].body)) = <<>>

\* C21: two updates of one record that are in flight together both succeed,
\* and the record they leave is the one that the two updates, made one
\* after the other in one of the two orders, would leave.
C21_ConcurrentUpdatesSerialize ==
    (impl = "api" /\ TwoUpdatesAnswered) =>
        /\ \A p \in Procs : calls[p].res.status = 200
        /\ Len(docs) = 1
        /\ Content(docs[1]) \in {Content(Serial(calls[1].body, calls[2].body)),
                                 Content(Serial(calls[2].body, calls[1].body))}

\* both requests are answered deletes of the document
TwoDeletesAnswered ==
    \A p \in Procs :
        calls[p].method = "DELETE" /\ calls[p].id = 1 /\ calls[p].pc = "done"

\* C27: of two deletes of one record that are in flight together, exactly
\* one is answered with success and the other with NotFound.
C27_OneDeleteSucceeds ==
    (impl = "api" /\ TwoDeletesAnswered) =>
        \E p, q \in Procs :
            calls[p].res.status = 200 /\ calls[q].res.status = 404

\* the record a save step is for is not in the collection
SavesAbsentRecord(p) ==
    /\ calls[p].pc = "save" /\ calls'[p].pc = "done"
    /\ calls[p].id \notin StoredIds

\* a save never brings a record back, and an answered update reports
\* success only for a record that is stored
DeletedStaysDeleted ==
    impl = "api" =>
        \A p \in Procs :
            /\ SavesAbsentRecord(p) =>
                 calls[p].id \notin {docs'[i]._id : i \in 1..Len(docs')}
            /\ (calls[p].pc = "save" /\ IsSuccess(calls'[p].res)) =>
                 calls[p].id \in {docs'[i]._id : i \in 1..Len(docs')}

\* C28: when a delete completes between the read and the save of an update
\* of the same record, the save does not write the record back and the
\* update is not answered with success.
C28_UpdateDoesNotResurrect == [][DeletedStaysDeleted]_vars

\* an update read the record, a delete removed it, and the update has been
\* answered after its save
C28_Witness ==
    /\ impl = "api"
    /\ \E p, q \in Procs :
         /\ calls[p].method = "PUT" /\ calls[p].pc = "done"
         /\ calls[p].paths # {} /\ calls[p].res.status = 500
         /\ calls[q].method = "DELETE" /\ calls[q].res.status = 200
         /\ calls[q].id = calls[p].id
    /\ docs = <<>>

\* the ids of the jobs the component holds
ShownIds == {component.jobs[i].id : i \in 1..Len(component.jobs)}

\* the form is submitted right after 'Add New Job' was pressed
SubmitAfterAddNew == pressed = "AddNew" /\ pressed' = "Submit"

\* one job with an id no job had is appended, the others stay as they are
AppendsOneFreshJob ==
    /\ Len(component'.jobs) = Len(component.jobs) + 1
    /\ SubSeq(component'.jobs, 1, Len(component.jobs)) = component.jobs
    /\ component'.jobs[Len(component'.jobs)].id \notin ShownIds

\* C29: in the JobList component the form submitted after 'Add New Job' was
\* pressed always appends one job with a fresh id and leaves every job that
\* was there as it is, whatever was done before the button was pressed.
C29_AddNewThenSubmitAppends ==
    [][(impl \in {"JobList.jsx", "part_001"} /\ SubmitAfterAddNew)
         => AppendsOneFreshJob]_vars

\* the job being edited is one of the jobs of the list
EditedJobIsListed ==
    component.editingJob # <<>> => component.editingJob[1].id \in ShownIds

\* a submission while a job is being edited puts the submitted data in the
\* place of exactly one job, which keeps its id
SaveReplacesOneJob ==
    (pressed' = "Submit" /\ component.editingJob # <<>>) =>
        \E i \in 1..Len(component.jobs) :
            /\ component.jobs[i].id = component.editingJob[1].id
            /\ \E jobData \in FormDatas :
                 component'.jobs =
                     [component.jobs EXCEPT
                        ![i] = [id |-> component.jobs[i].id, data |-> jobData]]

\* C30: in the JobList component the job being edited is always in the
\* list, so that saving the edit replaces exactly that job; a job deleted
\* while it is edited does not make the save vanish.
C30_EditedJobStaysInList ==
    /\ [](impl \in {"JobList.jsx", "part_001"} => EditedJobIsListed)
    /\ [][(impl \in {"JobList.jsx", "part_001"}) => SaveReplacesOneJob]_vars

====
